------------------------------ MODULE Spec2Model ------------------------------
(***************************************************************************)
(* Model of the fleet health monitor of main.go: the background worker     *)
(* (health pass, error-log pass, validator-log pass, sleep), the notifier  *)
(* sendTelegramMessage, the command runner's outcomes, the metric parser   *)
(* and the HTTP listener.                                                  *)
(*                                                                         *)
(* Text is a sequence of one-character strings.  A float64 is a record     *)
(* [k |-> "num", v |-> thousandths] or [k |-> "inf"] / [k |-> "nan"].      *)
(***************************************************************************)
EXTENDS Integers, Sequences, FiniteSets, TLC

(* ---------------------------- bounds ---------------------------------- *)

\* number of configured hosts (length of the IPs list)
NumHosts == 2
\* cycles of the background loop that are explored
MaxCycles == 2
\* longest output of the error-log command, in characters
MaxErrorLogLen == 2
\* longest output of the validator-log command, in characters
MaxValidatorLogLen == 1

(* ------------------------- text helpers ------------------------------- *)

NL == "\n"

\* strings.Split(s, sep) for a one-character separator: the pieces between
\* separators, empty pieces kept; Split("") is one empty piece
RECURSIVE Split(_, _)
Split(s, sep) ==
    IF \A k \in 1..Len(s) : s[k] # sep THEN <<s>>
    ELSE LET k == CHOOSE k \in 1..Len(s) : s[k] = sep /\ \A j \in 1..(k - 1) : s[j] # sep
         IN  <<SubSeq(s, 1, k - 1)>> \o Split(SubSeq(s, k + 1, Len(s)), sep)

\* strings.Join(parts, sep)
RECURSIVE Join(_, _)
Join(parts, sep) ==
    IF Len(parts) = 0 THEN <<>>
    ELSE IF Len(parts) = 1 THEN parts[1]
    ELSE parts[1] \o <<sep>> \o Join(Tail(parts), sep)

IsSpace(c) == c \in {" ", "\t", NL, "\r"}

\* strings.Fields(s): the maximal runs of non-space characters
RECURSIVE Fields(_)
Fields(s) ==
    IF \A k \in 1..Len(s) : IsSpace(s[k]) THEN <<>>
    ELSE LET b == CHOOSE k \in 1..Len(s) : ~IsSpace(s[k]) /\ \A j \in 1..(k - 1) : IsSpace(s[j])
             e == CHOOSE k \in b..Len(s) :
                      /\ \A j \in b..k : ~IsSpace(s[j])
                      /\ (k = Len(s) \/ IsSpace(s[k + 1]))
         IN  <<SubSeq(s, b, e)>> \o Fields(SubSeq(s, e + 1, Len(s)))

\* strings.Trim(s, cutset): leading and trailing characters of cutset removed
RECURSIVE TrimLeft(_, _)
TrimLeft(s, cutset) ==
    IF s # <<>> /\ Head(s) \in cutset THEN TrimLeft(Tail(s), cutset) ELSE s

RECURSIVE TrimRight(_, _)
TrimRight(s, cutset) ==
    IF s # <<>> /\ s[Len(s)] \in cutset
    THEN TrimRight(SubSeq(s, 1, Len(s) - 1), cutset) ELSE s

Trim(s, cutset) == TrimRight(TrimLeft(s, cutset), cutset)

(* ------------------------- float64 values ----------------------------- *)

Digits == <<"0", "1", "2", "3", "4", "5", "6", "7", "8", "9">>

IsDigit(c) == \E d \in 1..10 : Digits[d] = c

DigitVal(c) == (CHOOSE d \in 1..10 : Digits[d] = c) - 1

Num(v) == [k |-> "num", v |-> v]
Inf == [k |-> "inf", v |-> 0]
NaN == [k |-> "nan", v |-> 0]

RECURSIVE DecVal(_)
DecVal(ds) ==
    IF ds = <<>> THEN 0 ELSE DecVal(SubSeq(ds, 1, Len(ds) - 1)) * 10 + DigitVal(ds[Len(ds)])

\* the first three fraction digits as thousandths (further digits are below
\* the model's resolution)
FracVal(ds) ==
    LET d(k) == IF k <= Len(ds) THEN DigitVal(ds[k]) ELSE 0
    IN  d(1) * 100 + d(2) * 10 + d(3)

\* strconv.ParseFloat(tok, 64) on unsigned decimal text "ddd" / "ddd.ddd":
\* any other text is a syntax error (signs, exponents, hex, inf and nan
\* spellings do not occur in the command outputs explored)
ParseFloat(tok) ==
    LET parts == Split(tok, ".")
        ip == parts[1]
        fp == IF Len(parts) = 2 THEN parts[2] ELSE <<>>
        wellFormed ==
            /\ Len(parts) \in {1, 2}
            /\ Len(ip) + Len(fp) > 0
            /\ \A k \in 1..Len(ip) : IsDigit(ip[k])
            /\ \A k \in 1..Len(fp) : IsDigit(fp[k])
    IN  IF wellFormed
        THEN [err |-> "", val |-> Num(DecVal(ip) * 1000 + FracVal(fp))]
        ELSE [err |-> "strconv.ParseFloat: invalid syntax", val |-> Num(0)]

\* (usedMem / totalMem) * 100 in float64: x/0 is +Inf, 0/0 is NaN (the
\* quotient is exact to thousandths; operands stay below 20 units so that
\* the scaled product fits TLC's integers)
MemPercent(usedMem, totalMem) ==
    IF totalMem.v = 0
    THEN (IF usedMem.v = 0 THEN NaN ELSE Inf)
    ELSE Num((usedMem.v * 100 * 1000) \div totalMem.v)

\* x > n for a float64 x and an integer n: false for NaN
Gt(x, n) == x.k = "inf" \/ (x.k = "num" /\ x.v > n * 1000)

\* fmt "%.2f": the value rounded to hundredths
Fmt2(x) == IF x.k = "num" THEN [k |-> "num", v |-> (x.v + 5) \div 10] ELSE x

(* ------------------------- parseSSHOutput ----------------------------- *)

MinLines == 12
MinCpuFields == 8
MinMemFields == 7
MinDiskFields == 5

ParseError(reason) ==
    [err |-> reason, cpu |-> Num(0), mem |-> Num(0), disk |-> Num(0), uptime |-> <<>>]

parseSSHOutput(output) ==
    LET lines == Split(output, NL) IN
    IF Len(lines) < MinLines THEN ParseError("unexpected output format") ELSE
    LET uptime == lines[2]
        cpuUsageLine == Split(lines[4], ":")
    IN
    IF Len(cpuUsageLine) < 2 THEN ParseError("unexpected CPU usage format") ELSE
    LET cpuUsageFields == Fields(cpuUsageLine[2]) IN
    IF Len(cpuUsageFields) < MinCpuFields THEN ParseError("unexpected CPU usage fields") ELSE
    LET cpuUsage == ParseFloat(Trim(cpuUsageFields[1], {"%", ","})) IN
    IF cpuUsage.err # "" THEN ParseError(cpuUsage.err) ELSE
    LET memUsageLine == Fields(lines[7]) IN
    IF Len(memUsageLine) < MinMemFields THEN ParseError("unexpected memory usage fields") ELSE
    LET totalMem == ParseFloat(memUsageLine[2]) IN
    IF totalMem.err # "" THEN ParseError(totalMem.err) ELSE
    LET usedMem == ParseFloat(memUsageLine[3]) IN
    IF usedMem.err # "" THEN ParseError(usedMem.err) ELSE
    LET memUsage == MemPercent(usedMem.val, totalMem.val)
        diskUsageLine == Fields(lines[11])
    IN
    IF Len(diskUsageLine) < MinDiskFields THEN ParseError("unexpected disk usage fields") ELSE
    LET diskUsage == ParseFloat(Trim(diskUsageLine[5], {"%", ","})) IN
    IF diskUsage.err # "" THEN ParseError(diskUsage.err) ELSE
    [err |-> "", cpu |-> cpuUsage.val, mem |-> memUsage, disk |-> diskUsage.val,
     uptime |-> uptime]

(* ---------------- outputs of the health command ----------------------- *)

\* 'top'
LineTop ==
    <<"t", "o", "p">>

\* ' up 1 day'
LineUptime ==
    <<" ", "u", "p", " ", "1", " ", "d", "a", "y">>

\* 'Tasks: 1'
LineTasks ==
    <<"T", "a", "s", "k", "s", ":", " ", "1">>

\* '%Cpu(s): '
CpuPrefix ==
    <<"%", "C", "p", "u", "(", "s", ")", ":", " ">>

\* ' us, 1.0 sy, 0.0 ni, 9.0 id, 0.0 wa, 0.0 hi, 0.0 si, 0.0 st'
CpuSuffix ==
    <<" ", "u", "s", ",", " ", "1", ".", "0", " ", "s", "y", ",", " ", "0", ".", "0", " ",
      "n", "i", ",", " ", "9", ".", "0", " ", "i", "d", ",", " ", "0", ".", "0", " ", "w",
      "a", ",", " ", "0", ".", "0", " ", "h", "i", ",", " ", "0", ".", "0", " ", "s", "i",
      ",", " ", "0", ".", "0", " ", "s", "t">>

\* 'total used free'
LineFreeHeader ==
    <<"t", "o", "t", "a", "l", " ", "u", "s", "e", "d", " ", "f", "r", "e", "e">>

\* 'Mem: '
MemPrefix ==
    <<"M", "e", "m", ":", " ">>

\* ' 70 0 0 70'
MemSuffix ==
    <<" ", "7", "0", " ", "0", " ", "0", " ", "7", "0">>

\* 'Swap: 0 0 0'
LineSwap ==
    <<"S", "w", "a", "p", ":", " ", "0", " ", "0", " ", "0">>

\* 'Filesystem Size Used Avail Use% Mounted'
LineDfHeader ==
    <<"F", "i", "l", "e", "s", "y", "s", "t", "e", "m", " ", "S", "i", "z", "e", " ", "U",
      "s", "e", "d", " ", "A", "v", "a", "i", "l", " ", "U", "s", "e", "%", " ", "M", "o",
      "u", "n", "t", "e", "d">>

\* '/dev/sda1 50G 20G 30G '
DiskPrefix ==
    <<"/", "d", "e", "v", "/", "s", "d", "a", "1", " ", "5", "0", "G", " ", "2", "0", "G",
      " ", "3", "0", "G", " ">>

\* ' /'
DiskSuffix ==
    <<" ", "/">>

\* the text a host's status one-liner prints, cut to its first n lines
HealthOutput(cpu, total, used, disk, n) ==
    Join(SubSeq(<<LineTop, LineUptime, LineTasks,
                  CpuPrefix \o cpu \o CpuSuffix,
                  <<>>, LineFreeHeader,
                  MemPrefix \o total \o <<" ">> \o used \o MemSuffix,
                  LineSwap, <<>>, LineDfHeader,
                  DiskPrefix \o disk \o DiskSuffix, <<>> >>, 1, n), NL)

\* the outputs the health command returns in the explored runs: every value
\* exactly at 80, one of the three values above 80, and a truncated report
HealthOutputs ==
    << HealthOutput(<<"8","0",".","0">>, <<"1","0">>, <<"8">>, <<"8","0","%">>, 12),
       HealthOutput(<<"8","5",".","0">>, <<"1","0">>, <<"1">>, <<"1","0","%">>, 12),
       HealthOutput(<<"1","2",".","5">>, <<"1","0">>, <<"8",".","1">>, <<"4","5","%">>, 12),
       HealthOutput(<<"1","2",".","5">>, <<"1","0">>, <<"3">>, <<"8","0",".","0","0","4","%">>, 12),
       HealthOutput(<<"1","2",".","5">>, <<"1","0">>, <<"3">>, <<"4","5","%">>, 3) >>

\* parseSSHOutput of each of them
RECURSIVE ParsedUpTo(_)
ParsedUpTo(n) ==
    IF n = 0 THEN <<>> ELSE Append(ParsedUpTo(n - 1), parseSSHOutput(HealthOutputs[n]))

Parsed == ParsedUpTo(Len(HealthOutputs))

(* ------------------------- configuration ------------------------------ *)

Addresses == <<"10.0.0.1", "10.0.0.2", "10.0.0.3", "10.0.0.4">>

\* viper.GetStringSlice("IPs")
IPs == [h \in 1..NumHosts |-> Addresses[h]]

(* ------------------------- command runner ------------------------------ *)

\* what the shell did with a command: whether the 10 s deadline passed, the
\* exit status, and what it wrote to standard output
Execution(deadline, exit, stdout) == [deadline |-> deadline, exit |-> exit, stdout |-> stdout]

runSSHCommand(exec) ==
    IF exec.deadline THEN [out |-> <<>>, err |-> "command timed out"]
    ELSE IF exec.exit # 0 THEN [out |-> <<>>, err |-> "exit status 1"]
    ELSE [out |-> exec.stdout, err |-> ""]

LogChars == {"a", NL}

\* every text of at most max characters
LogOutputs(max) == UNION {[1..n -> LogChars] : n \in 0..max}

FailedExecutions == {Execution(TRUE, 1, <<>>), Execution(FALSE, 1, <<>>)}

ErrorLogExecutions ==
    FailedExecutions \cup {Execution(FALSE, 0, o) : o \in LogOutputs(MaxErrorLogLen)}

ValidatorLogExecutions ==
    FailedExecutions \cup {Execution(FALSE, 0, o) : o \in LogOutputs(MaxValidatorLogLen)}

(* ----------------------------- notifier -------------------------------- *)

\* a text handed to log.Println or to the notifier: the format and its arguments
Msg(fmt, server, addr, err, text, lines) ==
    [fmt |-> fmt, server |-> server, addr |-> addr, err |-> err, text |-> text, lines |-> lines]

\* how a call of sendTelegramMessage goes: the message is delivered, bot.Send
\* returns an error, or tgbotapi.NewBotAPI returns an error
NotifierResults == {"delivered", "sendError", "newBotError"}

\* the ways a step's call can go; a step that makes no call has one way to go
ResultsIf(calls) == IF calls THEN NotifierResults ELSE {"not called"}

\* one call: NewBotAPI's error goes to log.Panic, Send's error is dropped
sendTelegramMessage(message, result) ==
    [message |-> message, result |-> result, panic |-> result = "newBotError"]

(* ------------------------------ state ---------------------------------- *)

VARIABLES
    proc,                         \* "running", "panicked" (log.Panic), "exited" (log.Fatal)
    listener,                     \* http.ListenAndServe: "starting" or "listening"
    pc,                           \* the pass the background goroutine is in, or "sleep"
    host,                         \* 1-based position in IPs of the next host of that pass
    cycle,                        \* iteration of the background loop
    messages,                     \* checkHealth: messages
    errorMessages,                \* checkHealth: errorMessages
    highUsage,                    \* checkHealth: highUsage
    samples,                      \* (cpu, mem, disk) parsed so far in this health pass
    outcomes,                     \* how each host's health probe of this pass ended
    passSent,                     \* notifier calls made so far in this health pass
    previousLogContent,
    previousValidatorLogContent,
    isFirstErrorLogCheck,
    isFirstValidatorLogCheck,
    ownValidatorLog,              \* per host, the output of its latest validator probe
    observe,                      \* the log output the worker holds between reading a
                                  \* stream's flag and content and assigning them
    last                          \* what the latest step did: inputs, branch, texts emitted

vars == <<proc, listener, pc, host, cycle, messages, errorMessages, highUsage, samples,
          outcomes, passSent, previousLogContent, previousValidatorLogContent,
          isFirstErrorLogCheck, isFirstValidatorLogCheck, ownValidatorLog, observe, last>>

healthVars == <<messages, errorMessages, highUsage, samples, outcomes, passSent>>
errorLogVars == <<previousLogContent, isFirstErrorLogCheck>>
validatorVars == <<previousValidatorLogContent, isFirstValidatorLogCheck, ownValidatorLog>>
workerVars == <<pc, host, cycle, observe>>

NotObserving == [stream |-> "none"]

NoOutput == <<"(no output)">>

Init ==
    /\ proc = "running"
    /\ listener = "starting"
    /\ pc = "health"
    /\ host = 1
    /\ cycle = 1
    /\ messages = <<>>
    /\ errorMessages = <<>>
    /\ highUsage = FALSE
    /\ samples = <<>>
    /\ outcomes = <<>>
    /\ passSent = <<>>
    /\ previousLogContent = <<>>
    /\ previousValidatorLogContent = <<>>
    /\ isFirstErrorLogCheck = TRUE
    /\ isFirstValidatorLogCheck = TRUE
    /\ ownValidatorLog = [h \in 1..NumHosts |-> NoOutput]
    /\ observe = NotObserving
    /\ last = [op |-> "start"]

(* --------------------------- checkHealth -------------------------------- *)

HighUsageThreshold == 80

HealthExecutions ==
    FailedExecutions \cup {Execution(FALSE, 0, HealthOutputs[n]) : n \in DOMAIN HealthOutputs}

\* parseSSHOutput(output) for an output of HealthOutputs, computed once per output
ParsedOutput(output) == Parsed[CHOOSE n \in DOMAIN HealthOutputs : HealthOutputs[n] = output]

\* the timeout text with the loop index as it is, counted from 0
TimeoutMsgZeroBased(i) ==
    Msg(<<"Error: SSH command to server %d timed out">>, i - 1, "", "", <<>>, <<>>)

TimeoutMsg(i) == Msg(<<"Error: SSH command to server %d timed out">>, i, "", "", <<>>, <<>>)

RunErrorEntry(i, err) ==
    Msg(<<"Error running SSH command for server %d: %v">>, i, "", err, <<>>, <<>>)

\* the parse failure entered with the text of a command failure
ParseErrorEntryAsRunError(i, err) ==
    Msg(<<"Error running SSH command for server %d: %v">>, i, "", err, <<>>, <<>>)

ParseErrorEntry(i, err) ==
    Msg(<<"Error parsing SSH output for server %d: %v">>, i, "", err, <<>>, <<>>)

StatusLine(i, cpu, mem, disk, uptime) ==
    [fmt |-> <<"Server %d - CPU Usage: %.2f%%, Memory Usage: %.2f%%, Disk Usage: %.2f%%, Uptime: %s">>,
     server |-> i, cpu |-> Fmt2(cpu), mem |-> Fmt2(mem), disk |-> Fmt2(disk), uptime |-> uptime]

\* "Health Check:\n" + strings.Join(messages, "\n")
FinalMessage(msgs) == Msg(<<"Health Check:\n%s">>, 0, "", "", <<>>, msgs)

\* the final text sent as it is, without the warning line before it
WarningMsgNoPrefix(final) == final

\* "Warning: High resource usage detected!\n" + finalMessage
WarningMsg(final) ==
    [final EXCEPT !.fmt = <<"Warning: High resource usage detected!\n">> \o final.fmt]

\* "Errors occurred during health check:\n" + strings.Join(errorMessages, "\n")
ErrorsMsg(errs) == Msg(<<"Errors occurred during health check:\n%s">>, 0, "", "", <<>>, errs)

\* the comparison with >= in place of >
IsHighUsageInclusive(cpu, mem, disk) ==
    \E x \in {cpu, mem, disk} :
        Gt(x, HighUsageThreshold) \/ (x.k = "num" /\ x.v = HighUsageThreshold * 1000)

\* cpu > 80 || mem > 80 || disk > 80
IsHighUsage(cpu, mem, disk) ==
    Gt(cpu, HighUsageThreshold) \/ Gt(mem, HighUsageThreshold) \/ Gt(disk, HighUsageThreshold)

\* one iteration of the loop over commands: host i is probed
HealthStep(exec) ==
    LET i == host
        r == runSSHCommand(exec)
        timedOut == r.err = "command timed out"
        p == IF r.err = "" THEN ParsedOutput(r.out) ELSE ParseError("")
        parsedOk == r.err = "" /\ p.err = ""
    IN  \E result \in ResultsIf(timedOut) :
        LET call == sendTelegramMessage(TimeoutMsg(i), result)
            panic == timedOut /\ call.panic
        IN
        /\ passSent' = IF timedOut THEN Append(passSent, call) ELSE passSent
        /\ errorMessages' =
              IF r.err # "" /\ ~timedOut THEN Append(errorMessages, RunErrorEntry(i, r.err))
              ELSE IF r.err = "" /\ p.err # "" THEN Append(errorMessages, ParseErrorEntry(i, p.err))
              ELSE errorMessages
        /\ messages' =
              IF parsedOk THEN Append(messages, StatusLine(i, p.cpu, p.mem, p.disk, p.uptime))
              ELSE messages
        /\ highUsage' = IF parsedOk /\ IsHighUsage(p.cpu, p.mem, p.disk) THEN TRUE ELSE highUsage
        /\ samples' =
              IF parsedOk
              THEN Append(samples, [server |-> i, cpu |-> p.cpu, mem |-> p.mem, disk |-> p.disk])
              ELSE samples
        /\ outcomes' = Append(outcomes, IF timedOut THEN "timeout"
                                        ELSE IF r.err # "" THEN "failure"
                                        ELSE IF p.err # "" THEN "parseError" ELSE "ok")
        /\ proc' = IF panic THEN "panicked" ELSE proc
        /\ host' = IF panic THEN host ELSE host + 1
        /\ last' = [op |-> "health", server |-> i, err |-> r.err, parseErr |-> p.err,
                    sent |-> IF timedOut THEN <<call>> ELSE <<>>]
        /\ UNCHANGED <<listener, pc, cycle, observe, errorLogVars, validatorVars>>

HealthProbe ==
    /\ proc = "running"
    /\ pc = "health"
    /\ host <= NumHosts
    /\ \E exec \in HealthExecutions : HealthStep(exec)

\* the code after the loop: the final text goes to the notifier or to the log,
\* then the collected errors go to the notifier
HealthDispatch ==
    LET finalMessage == FinalMessage(messages)
        logs == IF highUsage THEN <<>> ELSE <<finalMessage>>
    IN  \E result1 \in ResultsIf(highUsage) :
        LET warning == sendTelegramMessage(WarningMsg(finalMessage), result1)
            sent1 == IF highUsage THEN <<warning>> ELSE <<>>
            panic1 == highUsage /\ warning.panic
        IN
        \E result2 \in ResultsIf(~panic1 /\ Len(errorMessages) > 0) :
        LET errorMessage == sendTelegramMessage(ErrorsMsg(errorMessages), result2)
            sent2 == IF ~panic1 /\ Len(errorMessages) > 0 THEN <<errorMessage>> ELSE <<>>
            panic == panic1 \/ (sent2 # <<>> /\ errorMessage.panic)
        IN
        /\ last' = [op |-> "healthEnd", final |-> finalMessage, highUsage |-> highUsage,
                    errorMessages |-> errorMessages, samples |-> samples,
                    outcomes |-> outcomes, sent |-> passSent \o sent1 \o sent2,
                    logs |-> logs]
        /\ proc' = IF panic THEN "panicked" ELSE proc
        /\ pc' = IF panic THEN pc ELSE "errlog"
        /\ host' = IF panic THEN host ELSE 1
        /\ messages' = <<>>
        /\ errorMessages' = <<>>
        /\ highUsage' = FALSE
        /\ samples' = <<>>
        /\ outcomes' = <<>>
        /\ passSent' = <<>>
        /\ UNCHANGED <<listener, cycle, observe, errorLogVars, validatorVars>>

HealthFinish ==
    /\ proc = "running"
    /\ pc = "health"
    /\ host = NumHosts + 1
    /\ HealthDispatch

(* ------------------ checkErrorLogChanges, checkValidatorLogs ------------- *)

\* contains with a slip: only the first of the old lines is compared
containsFirstOnly(lines, line) == Len(lines) > 0 /\ lines[1] = line

\* func contains(lines, line)
contains(lines, line) == \E k \in 1..Len(lines) : lines[k] = line

\* the loop with its arguments swapped: the old lines missing from the new ones
RECURSIVE changesOfSwapped(_, _)
changesOfSwapped(newLines, oldLines) ==
    IF oldLines = <<>> THEN <<>>
    ELSE (IF \A k \in 1..Len(newLines) : newLines[k] # Head(oldLines)
          THEN <<Head(oldLines)>> ELSE <<>>)
         \o changesOfSwapped(newLines, Tail(oldLines))

\* the loop "for _, newLine := range newLines": the lines appended to changes
RECURSIVE changesOf(_, _)
changesOf(newLines, oldLines) ==
    IF newLines = <<>> THEN <<>>
    ELSE (IF ~contains(oldLines, Head(newLines)) THEN <<Head(newLines)>> ELSE <<>>)
         \o changesOf(Tail(newLines), oldLines)

ChangeMessage(ip, changes) ==
    Msg(<<"New log entries detected on server controller@%s:\n%s">>, 0, ip, "",
        Join(changes, NL), <<>>)

ValidatorMessage(ip) ==
    Msg(<<"Error: Validator is not functioning on server controller@%s.">>, 0, ip, "",
        <<>>, <<>>)

\* log.Println(changes) prints the slice as [l1 l2 ...]
ChangesLogLine(changes) ==
    Msg(<<"%v">>, 0, "", "", <<"[">> \o Join(changes, " ") \o <<"]">>, <<>>)

LogLine(text, err) == Msg(<<text>>, 0, "", err, <<>>, <<>>)

\* an iteration that assigns the output to the previous content whatever branch
\* it took
ObservationAlwaysStored(first, differs, changes, send, logs, store) ==
    [first |-> first, differs |-> differs, changes |-> changes, send |-> send,
     logs |-> logs, store |-> TRUE]

\* What one loop iteration does with a command's output: the branch it takes
\* (first, differs), the lines it collects (changes), the texts it hands to the
\* notifier (send) and to log.Println (logs), and whether it assigns the output
\* to the stream's previous content (store).
Observation(first, differs, changes, send, logs, store) ==
    [first |-> first, differs |-> differs, changes |-> changes, send |-> send,
     logs |-> logs, store |-> store]

\* the comparison made with nothing stored: every line of the output counts as
\* new, as if the host had a content of its own that was still empty
compareErrorLogAgainstNothing(ip, output, previous) ==
    LET differs == output # previous
        changes == IF differs THEN Split(output, NL) ELSE <<>>
        changeMessage == ChangeMessage(ip, changes)
    IN  Observation(FALSE, differs, changes,
                    IF Len(changes) > 0 THEN <<changeMessage>> ELSE <<>>,
                    IF ~differs THEN <<LogLine("No changes detected in log.", "")>>
                    ELSE IF Len(changes) > 0 THEN <<changeMessage>> ELSE <<>>,
                    differs)

\* the comparison with the assignment guarded: an empty output is not stored
compareErrorLogKeepingNonEmpty(ip, output, previous) ==
    LET differs == output # previous
        changes == IF differs THEN changesOf(Split(output, NL), Split(previous, NL))
                   ELSE <<>>
        changeMessage == ChangeMessage(ip, changes)
    IN  Observation(FALSE, differs, changes,
                    IF Len(changes) > 0 THEN <<changeMessage>> ELSE <<>>,
                    IF ~differs THEN <<LogLine("No changes detected in log.", "")>>
                    ELSE IF Len(changes) > 0 THEN <<changeMessage>> ELSE <<>>,
                    differs /\ output # <<>>)

\* checkErrorLogChanges, "if output != previousLogContent { ... } else { ... }"
compareErrorLog(ip, output, previous) ==
    LET differs == output # previous
        changes == IF differs THEN changesOf(Split(output, NL), Split(previous, NL))
                   ELSE <<>>
        changeMessage == ChangeMessage(ip, changes)
    IN  Observation(FALSE, differs, changes,
                    IF Len(changes) > 0 THEN <<changeMessage>> ELSE <<>>,
                    IF ~differs THEN <<LogLine("No changes detected in log.", "")>>
                    ELSE IF Len(changes) > 0 THEN <<changeMessage>> ELSE <<>>,
                    differs)

\* the loop body without the isFirstErrorLogCheck branch: the first output is
\* compared with the empty initial content like any other
observeErrorLogNoFirstCheck(ip, output, isFirst, previous) ==
    compareErrorLog(ip, output, previous)

\* checkErrorLogChanges, the loop body after a successful command
observeErrorLog(ip, output, isFirst, previous) ==
    IF isFirst THEN Observation(TRUE, FALSE, <<>>, <<>>, <<>>, TRUE)
    ELSE compareErrorLog(ip, output, previous)

\* the else branch without its sendTelegramMessage call: the stall is only logged
compareValidatorLogLogOnly(ip, output, previous) ==
    LET differs == output # previous
        changes == IF differs THEN changesOf(Split(output, NL), Split(previous, NL))
                   ELSE <<>>
        errorMessage == ValidatorMessage(ip)
    IN  Observation(FALSE, differs, changes, <<>>,
                    IF ~differs THEN <<errorMessage>>
                    ELSE IF Len(changes) > 0 THEN <<ChangesLogLine(changes)>> ELSE <<>>,
                    differs)

\* the alert decided by the delta instead of by output != previous: it is sent
\* whenever no line of the output is new
compareValidatorLogByDelta(ip, output, previous) ==
    LET differs == output # previous
        changes == changesOf(Split(output, NL), Split(previous, NL))
        errorMessage == ValidatorMessage(ip)
    IN  Observation(FALSE, differs, changes,
                    IF Len(changes) > 0 THEN <<>> ELSE <<errorMessage>>,
                    IF Len(changes) > 0 THEN <<ChangesLogLine(changes)>> ELSE <<errorMessage>>,
                    differs)

\* checkValidatorLogs, "if output != previousValidatorLogContent { ... } else { ... }"
compareValidatorLog(ip, output, previous) ==
    LET differs == output # previous
        changes == IF differs THEN changesOf(Split(output, NL), Split(previous, NL))
                   ELSE <<>>
        errorMessage == ValidatorMessage(ip)
    IN  Observation(FALSE, differs, changes,
                    IF differs THEN <<>> ELSE <<errorMessage>>,
                    IF ~differs THEN <<errorMessage>>
                    ELSE IF Len(changes) > 0 THEN <<ChangesLogLine(changes)>> ELSE <<>>,
                    differs)

\* checkValidatorLogs, the loop body after a successful command
observeValidatorLog(ip, output, isFirst, previous) ==
    IF isFirst THEN Observation(TRUE, FALSE, <<>>, <<>>, <<>>, TRUE)
    ELSE compareValidatorLog(ip, output, previous)

\* the record a log step leaves in last
LogStepRecord(op, r, previous, ownPrevious, o, sent) ==
    [op |-> op, server |-> host, addr |-> IPs[host], err |-> r.err, output |-> r.out,
     previous |-> previous, ownPrevious |-> ownPrevious, first |-> o.first,
     differs |-> o.differs, changes |-> o.changes, sent |-> sent, logs |-> o.logs]

\* one iteration of the loop over ips in checkErrorLogChanges, for the command
\* result r and the flag and content the iteration read
ErrorLogIteration(r, isFirst, previous) ==
    LET ip == IPs[host]
        failed == r.err # ""
        o == IF failed
             THEN Observation(FALSE, FALSE, <<>>, <<>>,
                              <<LogLine("Error running log check command: %v", r.err)>>, FALSE)
             ELSE observeErrorLog(ip, r.out, isFirst, previous)
    IN  \E result \in ResultsIf(o.send # <<>>) :
        LET sent == IF o.send = <<>> THEN <<>>
                    ELSE <<sendTelegramMessage(o.send[1], result)>>
            panic == sent # <<>> /\ sent[1].panic
            done == ~panic /\ host = NumHosts
        IN
        /\ previousLogContent' = IF o.store /\ ~panic THEN r.out ELSE previousLogContent
        /\ isFirstErrorLogCheck' = IF o.first THEN FALSE ELSE isFirstErrorLogCheck
        /\ proc' = IF panic THEN "panicked" ELSE proc
        /\ pc' = IF done THEN "vallog" ELSE pc
        /\ host' = IF panic THEN host ELSE IF done THEN 1 ELSE host + 1
        /\ last' = LogStepRecord("errlog", r, previous, NoOutput, o, sent)
        /\ UNCHANGED <<listener, cycle, healthVars, validatorVars>>

\* the iteration taken as one step
ErrorLogStep(exec) ==
    /\ ErrorLogIteration(runSSHCommand(exec), isFirstErrorLogCheck, previousLogContent)
    /\ UNCHANGED observe

ErrorLogProbe ==
    /\ proc = "running"
    /\ pc = "errlog"
    /\ \E exec \in ErrorLogExecutions : ErrorLogStep(exec)

\* one iteration of the loop over ips in checkValidatorLogs, for the command
\* result r and the flag and content the iteration read
ValidatorLogIteration(r, isFirst, previous) ==
    LET ip == IPs[host]
        failed == r.err # ""
        o == IF failed
             THEN Observation(FALSE, FALSE, <<>>, <<>>,
                              <<LogLine("Error retrieving logs from server: %v", r.err)>>, FALSE)
             ELSE observeValidatorLog(ip, r.out, isFirst, previous)
    IN  \E result \in ResultsIf(o.send # <<>>) :
        LET sent == IF o.send = <<>> THEN <<>>
                    ELSE <<sendTelegramMessage(o.send[1], result)>>
            panic == sent # <<>> /\ sent[1].panic
            done == ~panic /\ host = NumHosts
        IN
        /\ previousValidatorLogContent' =
              IF o.store /\ ~panic THEN r.out ELSE previousValidatorLogContent
        /\ isFirstValidatorLogCheck' = IF o.first THEN FALSE ELSE isFirstValidatorLogCheck
        /\ ownValidatorLog' =
              [ownValidatorLog EXCEPT ![host] = IF failed THEN NoOutput ELSE r.out]
        /\ proc' = IF panic THEN "panicked" ELSE proc
        /\ pc' = IF done THEN "sleep" ELSE pc
        /\ host' = IF panic THEN host ELSE IF done THEN 1 ELSE host + 1
        /\ last' = LogStepRecord("vallog", r, previous, ownValidatorLog[host], o, sent)
        /\ UNCHANGED <<listener, cycle, healthVars, errorLogVars>>

\* the iteration taken as one step
ValidatorLogStep(exec) ==
    /\ ValidatorLogIteration(runSSHCommand(exec), isFirstValidatorLogCheck,
                             previousValidatorLogContent)
    /\ UNCHANGED observe

ValidatorLogProbe ==
    /\ proc = "running"
    /\ pc = "vallog"
    /\ \E exec \in ValidatorLogExecutions : ValidatorLogStep(exec)

(* ------------------------------- main ----------------------------------- *)

\* the loop starting again at the error-log pass, the health pass left out
SleepThenErrorLog ==
    /\ proc = "running"
    /\ pc = "sleep"
    /\ cycle < MaxCycles
    /\ pc' = "errlog"
    /\ host' = 1
    /\ cycle' = cycle + 1
    /\ last' = [op |-> "sleep"]
    /\ UNCHANGED <<proc, listener, observe, healthVars, errorLogVars, validatorVars>>

\* time.Sleep(10 * time.Second), then the next iteration of the loop
Sleep ==
    /\ proc = "running"
    /\ pc = "sleep"
    /\ cycle < MaxCycles
    /\ pc' = "health"
    /\ host' = 1
    /\ cycle' = cycle + 1
    /\ last' = [op |-> "sleep"]
    /\ UNCHANGED <<proc, listener, observe, healthVars, errorLogVars, validatorVars>>

\* http.ListenAndServe(":8002", nil): the port is bound, or the error goes to log.Fatal
ListenAndServe ==
    /\ proc = "running"
    /\ listener = "starting"
    /\ \E bound \in BOOLEAN :
          /\ listener' = IF bound THEN "listening" ELSE listener
          /\ proc' = IF bound THEN proc ELSE "exited"
          /\ last' = [op |-> "listen", bound |-> bound]
    /\ UNCHANGED <<workerVars, healthVars, errorLogVars, validatorVars>>

\* the patterns registered on http.DefaultServeMux: main registers none
RegisteredPatterns == {}

RequestPaths == {"/checkhealth", "/"}

\* a handler for every path that starts the error-log stream afresh: it sets
\* the first-check flag and empties the stored content
ServeHTTPResettingErrorLog ==
    /\ proc = "running"
    /\ listener = "listening"
    /\ \E path \in RequestPaths :
          last' = [op |-> "http", path |-> path, status |-> 200, body |-> "",
                   healthPasses |-> 0]
    /\ previousLogContent' = <<>>
    /\ isFirstErrorLogCheck' = TRUE
    /\ UNCHANGED <<proc, listener, workerVars, healthVars, validatorVars>>

\* a request served by http.DefaultServeMux: a path no pattern matches gets
\* http.NotFound
ServeHTTP ==
    /\ proc = "running"
    /\ listener = "listening"
    /\ \E path \in RequestPaths :
          /\ path \notin RegisteredPatterns
          /\ last' = [op |-> "http", path |-> path, status |-> 404,
                      body |-> "404 page not found\n", healthPasses |-> 0]
    /\ UNCHANGED <<proc, listener, workerVars, healthVars, errorLogVars, validatorVars>>

Next ==
    \/ HealthProbe
    \/ HealthFinish
    \/ ErrorLogProbe
    \/ ValidatorLogProbe
    \/ Sleep
    \/ ListenAndServe
    \/ ServeHTTP

Spec == Init /\ [][Next]_vars

(* ------------- the log passes, one access to the slots at a time ---------- *)

\* checkErrorLogChanges up to "if isFirstErrorLogCheck": the command has run; a
\* failed command ends the iteration, a successful one leaves the worker with
\* the output and with the flag and the content it has read
ErrorLogRead ==
    /\ proc = "running"
    /\ pc = "errlog"
    /\ observe = NotObserving
    /\ \E exec \in ErrorLogExecutions :
          LET r == runSSHCommand(exec) IN
          IF r.err # ""
          THEN ErrorLogStep(exec)
          ELSE /\ observe' = [stream |-> "errlog", r |-> r,
                              isFirst |-> isFirstErrorLogCheck,
                              previous |-> previousLogContent]
               /\ last' = [op |-> "errlogRead", server |-> host]
               /\ UNCHANGED <<proc, listener, pc, host, cycle, healthVars, errorLogVars,
                              validatorVars>>

\* the rest of the iteration: the comparison, the notifier call and the
\* assignments, made with what was read
ErrorLogWrite ==
    /\ proc = "running"
    /\ observe.stream = "errlog"
    /\ ErrorLogIteration(observe.r, observe.isFirst, observe.previous)
    /\ observe' = NotObserving

\* checkValidatorLogs up to "if isFirstValidatorLogCheck"
ValidatorLogRead ==
    /\ proc = "running"
    /\ pc = "vallog"
    /\ observe = NotObserving
    /\ \E exec \in ValidatorLogExecutions :
          LET r == runSSHCommand(exec) IN
          IF r.err # ""
          THEN ValidatorLogStep(exec)
          ELSE /\ observe' = [stream |-> "vallog", r |-> r,
                              isFirst |-> isFirstValidatorLogCheck,
                              previous |-> previousValidatorLogContent]
               /\ last' = [op |-> "vallogRead", server |-> host]
               /\ UNCHANGED <<proc, listener, pc, host, cycle, healthVars, errorLogVars,
                              validatorVars>>

\* the rest of the iteration of checkValidatorLogs
ValidatorLogWrite ==
    /\ proc = "running"
    /\ observe.stream = "vallog"
    /\ ValidatorLogIteration(observe.r, observe.isFirst, observe.previous)
    /\ observe' = NotObserving

NextByAccess ==
    \/ HealthProbe
    \/ HealthFinish
    \/ ErrorLogRead
    \/ ErrorLogWrite
    \/ ValidatorLogRead
    \/ ValidatorLogWrite
    \/ Sleep
    \/ ListenAndServe
    \/ ServeHTTP

\* the program with the requests of the listener's goroutines interleaved between
\* a log iteration's reads and its assignments
SpecByAccess == Init /\ [][NextByAccess]_vars

(* ============================== claims ================================== *)

\* the step last describes was a successful probe of the named log pass
Probed(op) == last.op = op /\ last.err = ""

\* the lines of new that occur nowhere among the lines of old, in the order of
\* new, repeated lines kept
LinesNotIn(new, old) ==
    LET newLines == Split(new, NL)
        oldLines == {Split(old, NL)[k] : k \in 1..Len(Split(old, NL))}
    IN  SelectSeq(newLines, LAMBDA line : line \notin oldLines)

\* the calls in sent whose message starts with the given text
CallsOf(sent, text) == SelectSeq(sent, LAMBDA call : call.message.fmt[1] = text)

StallText == "Error: Validator is not functioning on server controller@%s."

(* ---- C1 ---- *)
\* C1: the first successful probe of a log stream (the one that finds the
\* stream's first-check flag set) stores its output as the stream's previous
\* content, clears the flag and hands nothing to the notifier; after any
\* successful probe the flag is clear, so no later probe is a first one.
FirstObservationSilence ==
    /\ (last.op = "errlog" /\ last.first) =>
          /\ last.sent = <<>>
          /\ previousLogContent = last.output
    /\ (last.op = "vallog" /\ last.first) =>
          /\ last.sent = <<>>
          /\ previousValidatorLogContent = last.output
    /\ Probed("errlog") => ~isFirstErrorLogCheck
    /\ Probed("vallog") => ~isFirstValidatorLogCheck
    /\ isFirstErrorLogCheck => previousLogContent = <<>>
    /\ isFirstValidatorLogCheck => previousValidatorLogContent = <<>>

\* a first observation of a non-empty error log has happened
FirstObservationSeen ==
    /\ last.op = "errlog"
    /\ last.first
    /\ last.output = <<"a", NL>>
    /\ proc = "running"

(* ---- C2 ---- *)
\* C2: a successful error-log probe that is not the first one collects exactly
\* the lines of its output that occur nowhere among the lines of the stored
\* content, in output order with repeats; when there is such a line, exactly one
\* notifier call is made, with "New log entries detected on server
\* controller@<addr>:\n" and those lines joined by "\n".
ErrorLogDelta ==
    (Probed("errlog") /\ ~last.first) =>
        LET delta == LinesNotIn(last.output, last.previous) IN
        /\ last.changes = delta
        /\ delta # <<>> =>
              /\ Len(last.sent) = 1
              /\ last.sent[1].message =
                    [fmt |-> <<"New log entries detected on server controller@%s:\n%s">>,
                     server |-> 0, addr |-> IPs[last.server], err |-> "",
                     text |-> Join(delta, NL), lines |-> <<>>]

\* a probe has reported two different new lines
ErrorLogDeltaSeen ==
    /\ Probed("errlog")
    /\ ~last.first
    /\ Len(last.changes) = 2
    /\ last.changes[1] # last.changes[2]
    /\ Len(last.sent) = 1

(* ---- C3 ---- *)
IsPrefix(p, t) == Len(p) <= Len(t) /\ SubSeq(t, 1, Len(p)) = p

Appended(old, new) == SubSeq(new, Len(old) + 1, Len(new))

AtLineBoundary(old) == old = <<>> \/ old[Len(old)] = NL

\* C3 as stated: whenever the output is the stored content with some text
\* appended, the collected lines are the lines of the appended text that are
\* not lines of the stored content.
DeltaMonotonicity ==
    (Probed("errlog") /\ ~last.first /\ IsPrefix(last.previous, last.output)) =>
        last.changes = LinesNotIn(Appended(last.previous, last.output), last.previous)

\* C3, amended: the same, for stored content that is empty or ends with "\n",
\* so that the appended text starts on a line of its own.
DeltaMonotonicityAtLineBoundary ==
    (/\ Probed("errlog")
     /\ ~last.first
     /\ IsPrefix(last.previous, last.output)
     /\ AtLineBoundary(last.previous)) =>
        last.changes = LinesNotIn(Appended(last.previous, last.output), last.previous)

\* a line was appended after a stored content that ends with "\n"
DeltaMonotonicitySeen ==
    /\ Probed("errlog")
    /\ ~last.first
    /\ last.previous = <<NL>>
    /\ last.output = <<NL, "a">>
    /\ last.changes = << <<"a">> >>

(* ---- C4 ---- *)
\* C4 as stated: a host whose validator output equals that same host's output
\* of the previous cycle gets exactly one stall alert.
ValidatorStallPerHost ==
    (Probed("vallog") /\ last.ownPrevious = last.output) =>
        Len(CallsOf(last.sent, StallText)) = 1

\* C4, amended: a host whose validator output equals the stream's stored
\* content gets exactly one stall alert, naming that host; the stored content
\* is the one slot all hosts share: a successful probe leaves its output
\* there, a failed one leaves it as it was.
ValidatorStallSharedSlot ==
    /\ (Probed("vallog") /\ ~last.first /\ last.output = last.previous) =>
          /\ Len(CallsOf(last.sent, StallText)) = 1
          /\ CallsOf(last.sent, StallText)[1].message.addr = IPs[last.server]
    /\ Probed("vallog") => previousValidatorLogContent = last.output
    /\ (last.op = "vallog" /\ last.err # "") =>
          previousValidatorLogContent = last.previous

\* in the second cycle a host repeated the stored content, which was not its own
\* previous output
ValidatorStallSeen ==
    /\ Probed("vallog")
    /\ cycle = 2
    /\ last.output = last.previous
    /\ last.ownPrevious # last.output
    /\ Len(last.sent) = 1

(* ---- C5 ---- *)
\* C5 as stated: a successful validator probe, not the first, none of whose
\* lines is new sends the stall alert, also when the output differs from the
\* stored content.
ValidatorAlertOnEmptyDelta ==
    (Probed("vallog") /\ ~last.first /\ LinesNotIn(last.output, last.previous) = <<>>) =>
        Len(CallsOf(last.sent, StallText)) = 1

\* C5, amended: such a probe sends the stall alert when its output is identical
\* to the stored content, and sends nothing when the output differs, also when
\* none of its lines is new.
ValidatorAlertIffIdentical ==
    (Probed("vallog") /\ ~last.first) =>
        IF last.output = last.previous
        THEN Len(CallsOf(last.sent, StallText)) = 1
        ELSE last.sent = <<>>

\* an output that differs from the stored content and has no new line
ValidatorShrunkSeen ==
    /\ Probed("vallog")
    /\ ~last.first
    /\ last.output # last.previous
    /\ LinesNotIn(last.output, last.previous) = <<>>
    /\ last.sent = <<>>

(* ---- C6 ---- *)
StepsThatSend == {"health", "healthEnd", "errlog", "vallog"}

\* C6: a notifier call that fails (the client cannot be built, or the delivery
\* fails) leaves the process running.
NotifierFailureNeverCrashes ==
    (/\ last.op \in StepsThatSend
     /\ \E k \in 1..Len(last.sent) : last.sent[k].result # "delivered") =>
        proc = "running"

(* ---- C7 ---- *)
\* C7: a request to /checkhealth runs one health pass and is answered with
\* "Health check completed. Check logs for details."
HttpTriggerRunsHealthPass ==
    (last.op = "http" /\ last.path = "/checkhealth") =>
        /\ last.healthPasses = 1
        /\ last.body = "Health check completed. Check logs for details."

(* ---- C8 ---- *)
\* C8: a health command that times out for host i makes one notifier call with
\* "Error: SSH command to server <i> timed out", adds nothing about host i to
\* the error list or the message list, and the pass goes on with host i+1; at
\* the end of the pass every host that parsed has its status line in the final
\* text.
TimeoutClassification ==
    /\ (last.op = "health" /\ last.err = "command timed out") =>
          /\ Len(last.sent) = 1
          /\ last.sent[1].message =
                [fmt |-> <<"Error: SSH command to server %d timed out">>,
                 server |-> last.server, addr |-> "", err |-> "", text |-> <<>>,
                 lines |-> <<>>]
          /\ \A k \in 1..Len(errorMessages) : errorMessages[k].server # last.server
          /\ \A k \in 1..Len(messages) : messages[k].server # last.server
          /\ proc = "running"
          /\ pc = "health"
          /\ host = last.server + 1
    /\ last.op = "healthEnd" =>
          \A i \in 1..Len(last.outcomes) :
              last.outcomes[i] = "ok" =>
                  \E k \in 1..Len(last.final.lines) : last.final.lines[k].server = i

(* ---- C9 ---- *)
Exceeds80(x) == x.k = "inf" \/ (x.k = "num" /\ x.v > 80 * 1000)

AnyAbove80(parsed) ==
    \E k \in 1..Len(parsed) :
        Exceeds80(parsed[k].cpu) \/ Exceeds80(parsed[k].mem) \/ Exceeds80(parsed[k].disk)

\* C9: highUsage is set exactly when a host parsed so far in the pass has cpu,
\* mem or disk above 80, during the pass and at its end; values of exactly 80
\* do not set it.
ThresholdBoundary ==
    /\ (pc = "health" /\ last.op # "healthEnd") => (highUsage <=> AnyAbove80(samples))
    /\ last.op = "healthEnd" => (last.highUsage <=> AnyAbove80(last.samples))

\* a pass ended with every host parsed, one of them exactly at 80 for all three
\* values, and highUsage not set
ThresholdBoundarySeen ==
    /\ last.op = "healthEnd"
    /\ Len(last.samples) = NumHosts
    /\ \A k \in 1..NumHosts : ~Exceeds80(last.samples[k].cpu)
    /\ \E k \in 1..NumHosts :
          /\ last.samples[k].cpu = Num(80 * 1000)
          /\ last.samples[k].mem = Num(80 * 1000)
          /\ last.samples[k].disk = Num(80 * 1000)
    /\ ~last.highUsage

(* ---- C10 ---- *)
WarningText == "Warning: High resource usage detected!\n"

\* C10: at the end of a health pass the final text is "Health Check:\n" with
\* the status lines; with highUsage set exactly one notifier call carries the
\* warning line followed by the final text and the final text is not logged,
\* otherwise the final text is logged and no warning is sent.
EndOfPassDispatch ==
    last.op = "healthEnd" =>
        /\ last.final.fmt = <<"Health Check:\n%s">>
        /\ \A k \in 1..Len(last.final.lines) :
              last.final.lines[k].fmt[1] =
                  "Server %d - CPU Usage: %.2f%%, Memory Usage: %.2f%%, Disk Usage: %.2f%%, Uptime: %s"
        /\ IF last.highUsage
           THEN /\ Len(CallsOf(last.sent, WarningText)) = 1
                /\ CallsOf(last.sent, WarningText)[1].message.fmt = <<WarningText>> \o last.final.fmt
                /\ CallsOf(last.sent, WarningText)[1].message.lines = last.final.lines
                /\ last.logs = <<>>
           ELSE /\ CallsOf(last.sent, WarningText) = <<>>
                /\ last.logs = <<last.final>>

\* a pass ended with highUsage set and both hosts' status lines in the warning
EndOfPassWarningSeen ==
    /\ last.op = "healthEnd"
    /\ last.highUsage
    /\ Len(last.final.lines) = NumHosts
    /\ Len(CallsOf(last.sent, WarningText)) = 1

(* ---- C11 ---- *)
ErrorsText == "Errors occurred during health check:\n%s"

\* the positions of a pass's hosts whose command failed without timing out or
\* whose output did not parse, in host order
ErrorHosts(outs) == SelectSeq([i \in 1..Len(outs) |-> i],
                              LAMBDA i : outs[i] \in {"failure", "parseError"})

\* C11: the end of a health pass makes exactly one notifier call with "Errors
\* occurred during health check:\n" and the joined entries, as its last call,
\* when some host of the pass had a command failure other than a timeout or a
\* parse failure, and no such call otherwise; the entries are one per such
\* host, in host order, each with the host's 1-based index.
AggregatedErrorReport ==
    last.op = "healthEnd" =>
        LET reports == CallsOf(last.sent, ErrorsText)
            hosts == ErrorHosts(last.outcomes)
        IN  /\ Len(reports) = (IF hosts # <<>> THEN 1 ELSE 0)
            /\ hosts # <<>> =>
                  /\ last.sent[Len(last.sent)] = reports[1]
                  /\ Len(reports[1].message.lines) = Len(hosts)
                  /\ \A k \in 1..Len(hosts) : reports[1].message.lines[k].server = hosts[k]

(* ---- C12 ---- *)
\* C12: under SpecByAccess, where requests are served between a log
\* iteration's reads and its assignments: while the worker holds what it read
\* of a stream, the stream's flag and content still have the values read, so no
\* other activity has written them in between; every change of a stream's flag
\* or content is made by the worker's own iteration on that stream; and a
\* served request leaves both streams' flags and contents as they were.
AtomicObserve ==
    /\ [](observe.stream = "errlog" =>
             /\ previousLogContent = observe.previous
             /\ isFirstErrorLogCheck = observe.isFirst)
    /\ [](observe.stream = "vallog" =>
             /\ previousValidatorLogContent = observe.previous
             /\ isFirstValidatorLogCheck = observe.isFirst)
    /\ [][errorLogVars' # errorLogVars =>
             /\ last'.op = "errlog"
             /\ pc = "errlog"
             /\ observe.stream = "errlog"]_vars
    /\ [][<<previousValidatorLogContent, isFirstValidatorLogCheck>>' #
              <<previousValidatorLogContent, isFirstValidatorLogCheck>> =>
             /\ last'.op = "vallog"
             /\ pc = "vallog"
             /\ observe.stream = "vallog"]_vars
    /\ [][last'.op = "http" => UNCHANGED <<errorLogVars, validatorVars>>]_vars

\* a request was served while the worker held an error log it had read against
\* a non-empty stored content
AtomicObserveSeen ==
    /\ observe.stream = "errlog"
    /\ ~observe.isFirst
    /\ observe.previous # <<>>
    /\ observe.r.out # observe.previous
    /\ last.op = "http"
    /\ last.path = "/checkhealth"

(* ---- C13 ---- *)
\* C13 as stated: once a stream's first check is done, no step makes its
\* stored content empty again.
NeverClearedOnceInitialized ==
    /\ [][(~isFirstErrorLogCheck /\ previousLogContent # <<>>) =>
             previousLogContent' # <<>>]_vars
    /\ [][(~isFirstValidatorLogCheck /\ previousValidatorLogContent # <<>>) =>
             previousValidatorLogContent' # <<>>]_vars

\* C13, amended: once a stream's first check is done, its stored content
\* changes only in a successful probe of that stream, and then to that probe's
\* output; a successful probe with empty output that the process survives
\* leaves the stored content empty, so the content is emptied by such a probe
\* and by nothing else.
ClearedOnlyByEmptyOutput ==
    /\ [][(~isFirstErrorLogCheck /\ previousLogContent' # previousLogContent) =>
             /\ last'.op = "errlog"
             /\ last'.err = ""
             /\ previousLogContent' = last'.output]_vars
    /\ [][(~isFirstValidatorLogCheck /\
              previousValidatorLogContent' # previousValidatorLogContent) =>
             /\ last'.op = "vallog"
             /\ last'.err = ""
             /\ previousValidatorLogContent' = last'.output]_vars
    /\ []((Probed("errlog") /\ last.output = <<>> /\ proc = "running") =>
             previousLogContent = <<>>)
    /\ []((Probed("vallog") /\ last.output = <<>>) => previousValidatorLogContent = <<>>)

\* a successful probe with empty output has emptied a non-empty stored content
ClearedByEmptyOutputSeen ==
    /\ Probed("errlog")
    /\ ~last.first
    /\ last.previous # <<>>
    /\ last.output = <<>>
    /\ previousLogContent = <<>>

(* ---- C14 ---- *)
\* the worker's place in its cycle: the hosts of the health pass, the code
\* after the health loop, the hosts of the error-log pass, the hosts of the
\* validator-log pass, the sleep
Place ==
    IF pc = "health" THEN host
    ELSE IF pc = "errlog" THEN NumHosts + 1 + host
    ELSE IF pc = "vallog" THEN 2 * NumHosts + 1 + host
    ELSE 3 * NumHosts + 2

\* C14: every step of the worker moves it to the next place of the same cycle
\* (host by host through the health pass, the end of the health pass, host by
\* host through the error-log pass, then through the validator-log pass, then
\* the sleep) or, from the sleep, to the first host of the health pass of the
\* next cycle; each probe is of the host the worker stands at; a worker whose
\* process has ended stays where it is.
CycleOrdering ==
    /\ [](Place \in 1..(3 * NumHosts + 2))
    /\ [][<<pc, host, cycle>>' # <<pc, host, cycle>> =>
             \/ /\ pc # "sleep"
                /\ Place' = Place + 1
                /\ cycle' = cycle
             \/ /\ pc = "sleep"
                /\ pc' = "health"
                /\ host' = 1
                /\ cycle' = cycle + 1]_vars
    /\ [][last'.op \in {"health", "errlog", "vallog"} =>
             /\ last'.op = pc
             /\ last'.server = host
             /\ host \in 1..NumHosts
             /\ (proc' = "running" => Place' = Place + 1)]_vars
    /\ [][last'.op = "healthEnd" =>
             /\ pc = "health"
             /\ host = NumHosts + 1
             /\ (proc' = "running" => pc' = "errlog" /\ host' = 1)]_vars
    /\ [][last'.op = "sleep" => (pc = "sleep" /\ pc' = "health" /\ host' = 1)]_vars

\* the second cycle's validator-log pass has probed its last host
CycleOrderingSeen ==
    /\ cycle = 2
    /\ pc = "sleep"
    /\ last.op = "vallog"
    /\ last.server = NumHosts

(* ---- C15 ---- *)
\* C15: a log probe whose command fails (timeout or non-zero exit) leaves the
\* stream's flag and stored content as they were, makes no notifier call, and
\* the worker goes on to the next host (or to the next pass after the last
\* host); a stream's flag is cleared only by a successful probe, and a
\* successful probe that finds the flag set is treated as the first one, so a
\* stream whose probes have all failed still has its flag set and its next
\* successful probe is the first observation.
FailedLogProbeChangesNothing ==
    /\ [][(last'.op \in {"errlog", "vallog"} /\ last'.err # "") =>
             /\ UNCHANGED <<errorLogVars, previousValidatorLogContent,
                            isFirstValidatorLogCheck>>
             /\ last'.sent = <<>>
             /\ proc' = "running"
             /\ Place' = Place + 1]_vars
    /\ [][(isFirstErrorLogCheck /\ ~isFirstErrorLogCheck') =>
             (last'.op = "errlog" /\ last'.err = "" /\ last'.first)]_vars
    /\ [][(isFirstValidatorLogCheck /\ ~isFirstValidatorLogCheck') =>
             (last'.op = "vallog" /\ last'.err = "" /\ last'.first)]_vars
    /\ [][(isFirstErrorLogCheck /\ last'.op = "errlog" /\ last'.err = "") =>
             (last'.first /\ last'.sent = <<>>)]_vars
    /\ [][(isFirstValidatorLogCheck /\ last'.op = "vallog" /\ last'.err = "") =>
             (last'.first /\ last'.sent = <<>>)]_vars

\* in the second cycle an error-log command failed for the last host with the
\* stream still uninitialized: every error-log probe so far has failed
FailedLogProbeSeen ==
    /\ cycle = 2
    /\ last.op = "errlog"
    /\ last.err = "command timed out"
    /\ last.server = NumHosts
    /\ isFirstErrorLogCheck
    /\ pc = "vallog"

(* ---- C16 ---- *)
\* C16: after every successful probe of a stream that is not the first one, the
\* stream's stored content is the output of that probe, whether or not lines
\* were collected and whether or not a notifier call was made.
StoredContentIsLatestOutput ==
    /\ (Probed("errlog") /\ ~last.first) => previousLogContent = last.output
    /\ (Probed("vallog") /\ ~last.first) => previousValidatorLogContent = last.output

(* ---- C17 ---- *)
NoChangesText == "No changes detected in log."

\* C17: a successful error-log probe, not the first, none of whose lines is new
\* writes "No changes detected in log." to the local log and makes no notifier
\* call, both when its output is identical to the stored content and when it
\* differs from it.
NoChangesLoggedOnEmptyDelta ==
    (Probed("errlog") /\ ~last.first /\ LinesNotIn(last.output, last.previous) = <<>>) =>
        /\ Len(last.logs) = 1
        /\ last.logs[1].fmt = <<NoChangesText>>
        /\ last.sent = <<>>

(* ---- C18 ---- *)
StatusText == "Server %d - CPU Usage: %.2f%%, Memory Usage: %.2f%%, Disk Usage: %.2f%%, Uptime: %s"

ParseErrorText == "Error parsing SSH output for server %d: %v"

ParseReasons == {"unexpected output format", "unexpected CPU usage format",
                 "unexpected CPU usage fields", "unexpected memory usage fields",
                 "unexpected disk usage fields", "invalid syntax"}

\* C18: a probe of the health pass adds a status line exactly when its command
\* succeeded and its output parsed, and the line carries the host's index; a
\* probe whose output does not parse leaves the message list and highUsage as
\* they were, makes no notifier call, and adds to the error list exactly one
\* entry, "Error parsing SSH output for server <i>: <reason>" with the host's
\* index and the parser's reason.
StatusLineOnlyFromParse ==
    /\ [][last'.op = "health" =>
             IF last'.err = "" /\ last'.parseErr = ""
             THEN /\ Len(messages') = Len(messages) + 1
                  /\ SubSeq(messages', 1, Len(messages)) = messages
                  /\ messages'[Len(messages')].fmt = <<StatusText>>
                  /\ messages'[Len(messages')].server = last'.server
                  /\ errorMessages' = errorMessages
             ELSE messages' = messages /\ highUsage' = highUsage]_vars
    /\ [][(last'.op = "health" /\ last'.err = "" /\ last'.parseErr # "") =>
             /\ last'.parseErr \in ParseReasons
             /\ last'.sent = <<>>
             /\ errorMessages' =
                   Append(errorMessages,
                          [fmt |-> <<ParseErrorText>>, server |-> last'.server, addr |-> "",
                           err |-> last'.parseErr, text |-> <<>>, lines |-> <<>>])]_vars
    /\ [](last.op = "healthEnd" =>
             \A k \in 1..Len(last.final.lines) :
                 /\ last.final.lines[k].fmt = <<StatusText>>
                 /\ last.outcomes[last.final.lines[k].server] = "ok")

\* the output of the second host did not parse, after the first host had set
\* highUsage and contributed its status line
ParseFailureSeen ==
    /\ last.op = "health"
    /\ last.server = 2
    /\ last.parseErr = "unexpected output format"
    /\ highUsage
    /\ Len(messages) = 1
    /\ Len(errorMessages) = 1
    /\ errorMessages[1].server = 2

(* ---- C19 ---- *)
NewEntriesText == "New log entries detected on server controller@%s:\n%s"

\* C19: both log streams keep one flag and one stored content for all hosts.
\* A successful probe is the first one exactly when the stream's flag is still
\* set, whichever host it is for, and it clears the flag; a later successful
\* probe is compared with the stored content as the step found it, which is the
\* output of the latest successful probe of any host; so in the first cycle a
\* successful error-log probe of a host after the first successful one is not
\* silent: when its output has a line that is not a line of the stored content
\* it makes one "New log entries detected" call naming its own address.
SharedSlotAcrossHosts ==
    /\ [][(last'.op = "errlog" /\ last'.err = "") =>
             /\ last'.first = isFirstErrorLogCheck
             /\ last'.previous = previousLogContent
             /\ ~isFirstErrorLogCheck'
             /\ (proc' = "running" => previousLogContent' = last'.output)]_vars
    /\ [][(last'.op = "vallog" /\ last'.err = "") =>
             /\ last'.first = isFirstValidatorLogCheck
             /\ last'.previous = previousValidatorLogContent
             /\ ~isFirstValidatorLogCheck'
             /\ previousValidatorLogContent' = last'.output]_vars
    /\ []((Probed("errlog") /\ ~last.first) =>
             /\ last.changes = LinesNotIn(last.output, last.previous)
             /\ IF last.changes # <<>>
                THEN /\ Len(CallsOf(last.sent, NewEntriesText)) = 1
                     /\ last.sent[1].message.addr = IPs[last.server]
                ELSE last.sent = <<>>)

\* in the first cycle the second host's error log was compared with the first
\* host's and its new line was reported
SharedSlotSeen ==
    /\ cycle = 1
    /\ last.op = "errlog"
    /\ last.server = 2
    /\ ~last.first
    /\ last.previous = <<NL>>
    /\ last.output = <<"a">>
    /\ last.changes = << <<"a">> >>
    /\ Len(last.sent) = 1

(* ---- C20 ---- *)
TimeoutText == "Error: SSH command to server %d timed out"

ErrorEntryTexts == {"Error running SSH command for server %d: %v",
                    "Error parsing SSH output for server %d: %v"}

\* the host indices carried by a sequence of texts
ServersOf(texts) == [k \in 1..Len(texts) |-> texts[k].server]

Increasing(s) == \A j, k \in 1..Len(s) : j < k => s[j] < s[k]

Range(s) == {s[k] : k \in 1..Len(s)}

\* C20: at the end of a health pass every configured host has exactly one of a
\* status line in the final text, an entry in the error list, or a timeout
\* call made during the pass: the three counts add up to the number of hosts
\* and the indices they carry are each host's position in the configured list,
\* no index twice; status lines and error entries stand in host order; and
\* every timeout call comes before the warning call and the aggregated-error
\* call of the pass.
HealthPassPartition ==
    last.op = "healthEnd" =>
        LET statusServers == ServersOf(last.final.lines)
            errorServers == ServersOf(last.errorMessages)
            timeouts == CallsOf(last.sent, TimeoutText)
            timeoutServers == [k \in 1..Len(timeouts) |-> timeouts[k].message.server]
        IN  /\ Len(statusServers) + Len(errorServers) + Len(timeoutServers) = NumHosts
            /\ Range(statusServers) \cup Range(errorServers) \cup Range(timeoutServers)
                  = 1..NumHosts
            /\ Increasing(statusServers)
            /\ Increasing(errorServers)
            /\ Increasing(timeoutServers)
            /\ \A k \in 1..Len(last.errorMessages) :
                  last.errorMessages[k].fmt[1] \in ErrorEntryTexts
            /\ \A k \in 1..Len(last.final.lines) : last.final.lines[k].fmt = <<StatusText>>
            /\ \A k \in 1..Len(last.sent) :
                  (k <= Len(timeouts)) <=> (last.sent[k].message.fmt = <<TimeoutText>>)

\* a pass ended with a timeout for the first host and a status line for the
\* second, which kept its index 2 and set highUsage: the timeout call came
\* first, the warning call after it
HealthPassPartitionSeen ==
    /\ last.op = "healthEnd"
    /\ last.outcomes = <<"timeout", "ok">>
    /\ last.highUsage
    /\ Len(last.sent) = 2
    /\ last.sent[1].message.fmt = <<TimeoutText>>
    /\ last.sent[2].message.fmt[1] = WarningText
    /\ last.final.lines[1].server = 2

=============================================================================
